---- MODULE Spec2Model ----
(***************************************************************************)
(* Activity suggestion engine of the wellness companion backend            *)
(* (app/modules/conversation/suggestion_engine.py) and the streaming chat  *)
(* endpoint that drives it (app/api/v1/endpoints/chat_streaming.py), with  *)
(* the non-streaming chat path, the conversation cache and the rule-based  *)
(* affect reading (app/modules/conversation/service.py and                 *)
(* emotion_analyzer.py).                                                   *)
(*                                                                         *)
(* Text.  A message is a finite set of phrases of a fixed vocabulary; the  *)
(* text it stands for is those phrases joined by blanks.  Every pattern    *)
(* of the source (a regular expression used with re.search, or a keyword   *)
(* list used with the `in` substring test) is the set of vocabulary        *)
(* phrases it matches, obtained by running the pattern of the source on    *)
(* the phrase.  No pattern matches across two phrases of the vocabulary.   *)
(* Vietnamese phrases are written without their diacritics.                *)
(*                                                                         *)
(* Numbers.  The five needs are binary64 sums of multiples of 0.1; they    *)
(* are kept in hundredths (NeedOne = 1.0).  Of all the sums the analyzer   *)
(* can form, only 0.4 + 0.2 falls on the other side of a threshold of the  *)
(* code than the exact sum does (it is 0.6000000000000001 > 0.6); FAdd     *)
(* keeps that sum one unit above 60.  Scores are kept in units of          *)
(* 1/ScoreOne, which makes every product of the scoring formula integral.  *)
(***************************************************************************)
EXTENDS Integers, Sequences, FiniteSets, TLC

VARIABLES
    catalog,    \* the ACTIVITIES table: a sequence of profiles in definition order
    context,    \* the ConversationContext the calls work on, or NoContext
    args,       \* the arguments of the call under way (function-level specifications)
    call,       \* the last completed call: its arguments and what it returned
    messages,   \* the stored Message rows of the conversation (streaming endpoint)
    pending,    \* background saves scheduled by the streaming endpoint, not yet run
    turns,      \* streaming endpoint: what each answered turn offered, in order
    offered,    \* the suggestions returned on `context` so far, each with its branch
    conversations,  \* the rows of the conversations table, by id
    cache       \* _CONVERSATION_CACHE: the conversation object cached under each id

vars == <<catalog, context, args, call, messages, pending, turns, offered, conversations, cache>>

None == "None"                       \* an absent id or hour
NoActivity == [activity_type |-> None]  \* the payload None
NoContext == [absent |-> TRUE]          \* context=None
NoHour == -1                         \* current_hour=None

\* users and conversation ids of the conversations table
Users == {"u1", "u2"}

ConversationIds == {"c1", "c2"}

\* no row, or no cached object, under an id
NoConversation == [id |-> None, user_id |-> None, deleted_at |-> FALSE]

NoConversations == [c \in ConversationIds |-> NoConversation]

(***************************************************************************)
(* Bounds                                                                  *)
(***************************************************************************)
MaxMsgWords == 2        \* phrases per user message
MaxSuggestions == 4     \* length of context.suggested_activities
MaxTurn == 6            \* largest turn count a caller passes
MaxStreamTurns == 3     \* chat requests per conversation in the streaming model

(***************************************************************************)
(* Vocabulary of user messages and the patterns of the source over it      *)
(***************************************************************************)
SignalWords ==
    {"insomnia", "anxious", "kho tho", "chest tight", "headache", "tired",
     "overwhelmed", "overthink", "mind racing", "deadline", "argue",
     "not now", "enough"}

IntentWords ==
    {"ok", "music", "breathing", "journal", "diary", "routine", "exercise"}

Vocabulary == SignalWords \cup IntentWords

\* PhysiologicalSignals
SLEEP_ISSUES == {"insomnia"}
ANXIETY_PHYSICAL == {"anxious"}
BREATHING_ISSUES == {"kho tho", "chest tight"}
PAIN == {"headache"}
FATIGUE == {"tired"}
\* CognitiveSignals
OVERWHELM == {"overwhelmed"}
OVERTHINKING == {"overthink"}
RACING_THOUGHTS == {"mind racing"}
\* SituationalSignals
WORK_STRESS == {"deadline"}
SOCIAL_CONFLICT == {"argue"}
\* DisengagementSignals
REFUSAL == {"not now"}
SHUTDOWN == {"enough"}
\* ExplicitIntentSignals
MUSIC == {"music"}
BREATHING == {"breathing", "kho tho"}
ROUTINE == {"routine"}
JOURNALING == {"journal", "diary"}

\* re.search(pattern, msg_lower) / any(kw in msg_lower for kw in keywords)
Search(pattern, text) == (pattern \cap text) # {}

BoundedSubsets(S, n) == {T \in SUBSET S : Cardinality(T) <= n}

(***************************************************************************)
(* UserNeeds and ContextAnalyzer.analyze_user_needs                        *)
(***************************************************************************)
NeedOne == 100

UserNeeds ==
    [need_calming |-> 0, need_distraction |-> 0, need_activation |-> 0,
     need_processing |-> 0, urgency |-> 0]

\* binary64 addition of two multiples of 0.1, in hundredths
FAdd(x, y) == IF x = 40 /\ y = 20 THEN 61 ELSE x + y

Add(needs, field, inc) == [needs EXCEPT ![field] = FAdd(@, inc)]

When(cond, needs, field, inc) == IF cond THEN Add(needs, field, inc) ELSE needs

Min(a, b) == IF a < b THEN a ELSE b
Max(a, b) == IF a > b THEN a ELSE b

\* the clamp without its lower bound
Clamp_UpperOnly(x) == Min(NeedOne, x)

\* min(1.0, max(0.0, x))
Clamp(x) == Min(NeedOne, Max(0, x))

\* a missing energy level read as 1
Get_LowEnergy(d, key, default) ==
    IF key \in DOMAIN d THEN d[key] ELSE IF key = "energy_level" THEN 1 ELSE default

\* emotion_data.get(key, default)
Get(d, key, default) == IF key \in DOMAIN d THEN d[key] ELSE default

WallClock == 0 .. 23

IsNight(hour) == 22 <= hour \/ hour <= 6

\* current_hour = current_hour or datetime.now().hour
EffectiveHours(current_hour) ==
    IF current_hour = NoHour \/ current_hour = 0 THEN WallClock ELSE {current_hour}

\* the body of analyze_user_needs once the hour is fixed
NeedsAt(user_message, emotion_data, hour) ==
    LET emotion == Get(emotion_data, "emotion_state", "neutral")
        energy == Get(emotion_data, "energy_level", 5)
        m == user_message
        \* Layer 1: physiological signals
        n1 == When(Search(SLEEP_ISSUES, m), When(Search(SLEEP_ISSUES, m), UserNeeds,
                   "need_calming", 40), "urgency", 30)
        n2 == When(Search(ANXIETY_PHYSICAL, m), When(Search(ANXIETY_PHYSICAL, m), n1,
                   "need_calming", 50), "urgency", 40)
        n3 == When(Search(BREATHING_ISSUES, m), When(Search(BREATHING_ISSUES, m), n2,
                   "need_calming", 60), "urgency", 50)
        n4 == When(Search(PAIN, m), When(Search(PAIN, m), n3,
                   "need_calming", 30), "need_distraction", 30)
        n5 == When(Search(FATIGUE, m), When(Search(FATIGUE, m), n4,
                   "need_calming", 30), "need_distraction", 20)
        \* Layer 2: cognitive overload
        n6 == When(Search(OVERWHELM, m), When(Search(OVERWHELM, m),
                   When(Search(OVERWHELM, m), n5, "need_calming", 40),
                   "need_distraction", 50), "urgency", 30)
        n7 == When(Search(OVERTHINKING, m), When(Search(OVERTHINKING, m), n6,
                   "need_distraction", 60), "need_calming", 30)
        n8 == When(Search(RACING_THOUGHTS, m), When(Search(RACING_THOUGHTS, m), n7,
                   "need_distraction", 50), "need_calming", 40)
        \* Layer 3: emotional state
        tense == emotion \in {"anxious", "stressed", "overwhelmed"}
        n9 == When(tense, When(tense, n8, "need_calming", 50), "urgency", 30)
        n10 == When(tense /\ energy <= 4,
                    When(tense /\ energy <= 4, n9, "need_calming", 30), "urgency", 20)
        low == emotion \in {"sad", "depressed"}
        n11 == When(low, When(low, n10, "need_processing", 40), "need_distraction", 30)
        hot == emotion \in {"angry", "frustrated"}
        n12 == When(hot, n11, "need_processing", 50)
        n13 == When(hot /\ energy >= 7, n12, "need_activation", 60)
        n14 == When(hot /\ ~(energy >= 7), n13, "need_calming", 30)
        n15 == When(emotion = "refuse", When(emotion = "refuse", n14,
                    "need_distraction", 60), "need_processing", -30)
        \* Layer 4: situational context
        n16 == When(Search(WORK_STRESS, m), When(Search(WORK_STRESS, m), n15,
                    "need_distraction", 30), "urgency", 20)
        n17 == When(Search(SOCIAL_CONFLICT, m), n16, "need_processing", 40)
        n18 == When(Search(SOCIAL_CONFLICT, m) /\ energy >= 6, n17, "need_activation", 30)
        \* Layer 5: disengagement signals
        n19 == When(Search(REFUSAL, m), When(Search(REFUSAL, m), n18,
                    "need_distraction", 50), "need_processing", -40)
        n20 == When(Search(SHUTDOWN, m), When(Search(SHUTDOWN, m), n19,
                    "need_distraction", 60), "need_calming", 40)
        \* Layer 6: time-based context
        n21 == When(IsNight(hour) /\ emotion \in {"anxious", "stressed"}, n20,
                    "need_calming", 30)
        nightSleep == IsNight(hour) /\ Search(SLEEP_ISSUES, m)
        n22 == When(nightSleep, When(nightSleep, n21, "need_calming", 40), "urgency", 30)
    IN  \* Clamp to 0-1
        [need_calming |-> Clamp(n22.need_calming),
         need_distraction |-> Clamp(n22.need_distraction),
         need_activation |-> Clamp(n22.need_activation),
         need_processing |-> Clamp(n22.need_processing),
         urgency |-> Clamp(n22.urgency)]

\* the needs vectors a call of analyze_user_needs can return
analyze_user_needs(user_message, emotion_data, current_hour) ==
    {NeedsAt(user_message, emotion_data, h) : h \in EffectiveHours(current_hour)}

(***************************************************************************)
(* Vocabulary of assistant messages and the keyword lists read on them     *)
(***************************************************************************)
ReplyWords == {"would you like", "music", "breathing", "journal", "practice"}

\* the display names generateSuggestionMessage appends to a reply
ActivityNames ==
    {"Bai tap hit tho", "Breathing exercise", "Giai toa cang thang", "Release stress",
     "Am thanh thu gian", "Rest Sounds", "Studio chua lanh", "Healing Studio",
     "Lieu trinh chua lanh", "Healing Routine", "Viet nhat ky", "Journaling"}

\* keyword lists of select_best_activity, PRIORITY 0
agreement_keywords == {"ok"}
offered_music == {"music", "Am thanh thu gian", "Rest Sounds"}
offered_breathing == {"breathing", "kho tho", "Bai tap hit tho", "Breathing exercise"}
offered_journaling == {"journal", "Viet nhat ky", "Journaling"}
offered_routine == {"routine", "practice", "Lieu trinh chua lanh", "Healing Routine"}

\* keyword lists of shouldSuggestActivity
explicit_keywords == {"music", "breathing", "kho tho", "routine", "exercise", "journal"}
invitation_keywords == {"would you like"}

(***************************************************************************)
(* ActivityProfile and the ACTIVITIES table                                *)
(* provides_* and immediacy are in hundredths                              *)
(***************************************************************************)
ACTIVITIES ==
    << [id |-> "breathing", name |-> "Breathing exercise", name_vi |-> "Bai tap hit tho",
        duration |-> 1, description |-> "Slow your breath for 1 minute.",
        description_vi |-> "Tho cham trong 1 phut.",
        visual_style |-> "gradient-pink-purple", route_path |-> "/activity/breathing",
        provides_calming |-> 90, provides_distraction |-> 30,
        provides_activation |-> 10, provides_processing |-> 40,
        commitment_level |-> 1, immediacy |-> 95, requires_talking |-> FALSE,
        energy_required |-> "low", base_priority |-> 10,
        good_for_emotions |-> {"anxious", "stressed", "overwhelmed"}],
       [id |-> "release_stress", name |-> "Release stress", name_vi |-> "Giai toa cang thang",
        duration |-> 5, description |-> "Name one word. Watch it fade.",
        description_vi |-> "Noi mot tu. De no tan dan.",
        visual_style |-> "gradient-purple-blue", route_path |-> "/activity/breathing",
        provides_calming |-> 60, provides_distraction |-> 50,
        provides_activation |-> 30, provides_processing |-> 80,
        commitment_level |-> 2, immediacy |-> 70, requires_talking |-> TRUE,
        energy_required |-> "low", base_priority |-> 9,
        good_for_emotions |-> {"stressed", "sad", "angry"}],
       [id |-> "rest_sounds", name |-> "Rest Sounds", name_vi |-> "Am thanh thu gian",
        duration |-> 20, description |-> "Gentle sounds to help you rest.",
        description_vi |-> "Am thanh nhe nhang giup ban nghi ngoi.",
        visual_style |-> "gradient-soft-blue", route_path |-> "/activity/music",
        provides_calming |-> 80, provides_distraction |-> 70,
        provides_activation |-> 0, provides_processing |-> 20,
        commitment_level |-> 1, immediacy |-> 90, requires_talking |-> FALSE,
        energy_required |-> "very_low", base_priority |-> 8,
        good_for_emotions |-> {"tired", "overwhelmed", "refuse"}],
       [id |-> "healing_studio", name |-> "Healing Studio", name_vi |-> "Studio chua lanh",
        duration |-> 15, description |-> "Less talk.... more action. / Lo-fi...",
        description_vi |-> "It noi... nhieu hanh dong hon.",
        visual_style |-> "gradient-dark-blue", route_path |-> "/activity/music",
        provides_calming |-> 70, provides_distraction |-> 80,
        provides_activation |-> 20, provides_processing |-> 30,
        commitment_level |-> 2, immediacy |-> 80, requires_talking |-> FALSE,
        energy_required |-> "low", base_priority |-> 7,
        good_for_emotions |-> {"refuse", "tired", "stressed"}],
       [id |-> "healing_routine", name |-> "Healing Routine", name_vi |-> "Lieu trinh chua lanh",
        duration |-> 10, description |-> "A small practice, carried gently.",
        description_vi |-> "Thuc hanh nhe nhang.",
        visual_style |-> "gradient-purple-pink", route_path |-> "/activity/routine",
        provides_calming |-> 70, provides_distraction |-> 40,
        provides_activation |-> 50, provides_processing |-> 90,
        commitment_level |-> 4, immediacy |-> 30, requires_talking |-> FALSE,
        energy_required |-> "medium", base_priority |-> 5,
        good_for_emotions |-> {"calm", "happy"}],
       [id |-> "journaling", name |-> "Journaling", name_vi |-> "Viet nhat ky",
        duration |-> 10, description |-> "Write down what's on your mind.",
        description_vi |-> "Viet ra nhung gi ban dang nghi.",
        visual_style |-> "gradient-warm-orange", route_path |-> "/activity/journaling",
        provides_calming |-> 60, provides_distraction |-> 40,
        provides_activation |-> 20, provides_processing |-> 95,
        commitment_level |-> 3, immediacy |-> 50, requires_talking |-> FALSE,
        energy_required |-> "medium", base_priority |-> 6,
        good_for_emotions |-> {"sad", "frustrated", "overwhelmed", "anxious"}] >>

ActivityIds == {ACTIVITIES[i].id : i \in DOMAIN ACTIVITIES}

\* act_id in ACTIVITIES
InCatalog(table, act_id) == \E i \in DOMAIN table : table[i].id = act_id

\* ACTIVITIES[act_id]
Profile(table, act_id) == table[CHOOSE i \in DOMAIN table : table[i].id = act_id]

(***************************************************************************)
(* ConversationContext                                                     *)
(***************************************************************************)
ConversationContext(turn_count, last_assistant_message) ==
    [turn_count |-> turn_count, last_assistant_message |-> last_assistant_message,
     suggested_activities |-> <<>>, has_suggested_in_session |-> FALSE]

\* the flag set, the id not recorded
add_suggestion_FlagOnly(self, activity_id) ==
    [self EXCEPT !.has_suggested_in_session = TRUE]

\* the list overwritten by the new id
add_suggestion_Replace(self, activity_id) ==
    [self EXCEPT !.suggested_activities = <<activity_id>>,
                 !.has_suggested_in_session = TRUE]

\* the id recorded, the flag left as it was
add_suggestion_ListOnly(self, activity_id) ==
    [self EXCEPT !.suggested_activities = Append(@, activity_id)]

add_suggestion(self, activity_id) ==
    [self EXCEPT !.suggested_activities = Append(@, activity_id),
                 !.has_suggested_in_session = TRUE]

Elements(seq) == {seq[i] : i \in DOMAIN seq}

\* suggested_activities[-window:]
LastEntries(seq, window) ==
    SubSeq(seq, Len(seq) - window + 1, Len(seq))

\* the whole list searched, whatever the window
was_recently_suggested_Ever(self, activity_id, window) ==
    activity_id \in Elements(self.suggested_activities)

was_recently_suggested(self, activity_id, window) ==
    IF Len(self.suggested_activities) < window
    THEN activity_id \in Elements(self.suggested_activities)
    ELSE activity_id \in Elements(LastEntries(self.suggested_activities, window))

(***************************************************************************)
(* SmartActivitySelector                                                   *)
(***************************************************************************)
ScoreOne == 2000000

\* needs.need_x * activity.provides_x * weight, when needs.need_x > 0.3
Term(need, provides, weight) == IF need > 30 THEN need * provides * weight ELSE 0

\* the urgency multiplier applied to the whole score instead of the sum
_calculate_match_score_ScaleAll(activity, needs, ctx) ==
    LET core == Term(needs.need_calming, activity.provides_calming, 100)
              + Term(needs.need_distraction, activity.provides_distraction, 80)
              + Term(needs.need_activation, activity.provides_activation, 70)
              + Term(needs.need_processing, activity.provides_processing, 60)
        s2 == IF ctx.turn_count < 5 THEN core * 200 - activity.commitment_level * 10 * ScoreOne
              ELSE core * 200
        s3 == IF needs.need_distraction > 70 /\ activity.requires_talking
              THEN s2 - 20 * ScoreOne ELSE s2
        s4 == IF was_recently_suggested(ctx, activity.id, 3) THEN s3 - 30 * ScoreOne ELSE s3
        s5 == s4 + activity.base_priority * ScoreOne
        s6 == IF needs.urgency > 60
              THEN s5 + (s5 \div 200) * activity.immediacy
                   - activity.commitment_level * 15 * ScoreOne
              ELSE s5
    IN  Max(0, s6)

_calculate_match_score(activity, needs, ctx) ==
    LET \* Core matching, in units of 1/10000
        core == Term(needs.need_calming, activity.provides_calming, 100)
              + Term(needs.need_distraction, activity.provides_distraction, 80)
              + Term(needs.need_activation, activity.provides_activation, 70)
              + Term(needs.need_processing, activity.provides_processing, 60)
        \* Urgency modifier: score *= (1 + immediacy * 0.5); score -= commitment_level * 15
        s1 == IF needs.urgency > 60
              THEN core * (200 + activity.immediacy) - activity.commitment_level * 15 * ScoreOne
              ELSE core * 200
        \* Early turns: avoid high commitment
        s2 == IF ctx.turn_count < 5 THEN s1 - activity.commitment_level * 10 * ScoreOne ELSE s1
        \* Disengagement: avoid talking
        s3 == IF needs.need_distraction > 70 /\ activity.requires_talking
              THEN s2 - 20 * ScoreOne ELSE s2
        \* Recency penalty
        s4 == IF was_recently_suggested(ctx, activity.id, 3) THEN s3 - 30 * ScoreOne ELSE s3
        \* Base priority
        s5 == s4 + activity.base_priority * ScoreOne
    IN  Max(0, s5)

_format_activity(activity, language) ==
    [activity_type |-> activity.id,
     description |-> IF language = "vi" THEN activity.description_vi ELSE activity.description,
     duration |-> activity.duration,
     visual_style |-> activity.visual_style,
     name |-> IF language = "vi" THEN activity.name_vi ELSE activity.name,
     route_path |-> activity.route_path]

\* for act_id in ids: if act_id in ACTIVITIES: (first hit) -- None when the loop falls through
FirstInCatalog(table, ids) ==
    IF \E k \in DOMAIN ids : InCatalog(table, ids[k])
    THEN ids[CHOOSE k \in DOMAIN ids :
                /\ InCatalog(table, ids[k])
                /\ \A j \in 1 .. (k - 1) : ~InCatalog(table, ids[j])]
    ELSE None

\* the four `if any(kw in last_msg ...)` blocks, in order; a block whose loop
\* finds no entry falls through to the next
OfferedDomains ==
    << [keywords |-> offered_music, ids |-> <<"healing_studio", "rest_sounds">>],
       [keywords |-> offered_breathing, ids |-> <<"breathing", "release_stress">>],
       [keywords |-> offered_journaling, ids |-> <<"journaling">>],
       [keywords |-> offered_routine, ids |-> <<"healing_routine">>] >>

\* the three `if re.search(ExplicitIntentSignals.X, msg_lower)` blocks, in order
ExplicitDomains ==
    << [keywords |-> MUSIC, ids |-> <<"healing_studio", "rest_sounds">>],
       [keywords |-> BREATHING, ids |-> <<"breathing", "release_stress">>],
       [keywords |-> JOURNALING, ids |-> <<"journaling">>] >>

\* the id returned by the first block of `blocks` that returns, or None
FirstBlock(table, blocks, text) ==
    LET Hit(k) == Search(blocks[k].keywords, text)
                  /\ FirstInCatalog(table, blocks[k].ids) # None
    IN  IF \E k \in DOMAIN blocks : Hit(k)
        THEN FirstInCatalog(table,
                 blocks[CHOOSE k \in DOMAIN blocks :
                            Hit(k) /\ \A j \in 1 .. (k - 1) : ~Hit(j)].ids)
        ELSE None

\* PRIORITY 0 taken only on a context that has offered nothing yet
Priority0_FreshOnly(table, msg, ctx) ==
    IF Search(agreement_keywords, msg) /\ ~ctx.has_suggested_in_session
    THEN FirstBlock(table, OfferedDomains, ctx.last_assistant_message)
    ELSE None

\* PRIORITY 0: context from previous message (when user agrees)
Priority0(table, msg, ctx) ==
    IF Search(agreement_keywords, msg)
    THEN FirstBlock(table, OfferedDomains, ctx.last_assistant_message)
    ELSE None

\* PRIORITY 1: explicit intent (user directly asks)
Priority1(table, msg) == FirstBlock(table, ExplicitDomains, msg)

\* PRIORITY 2 returning the entry of lowest score above 0
Priority2_Lowest(table, needs, ctx) ==
    LET Score(i) == _calculate_match_score(table[i], needs, ctx)
        scored == {i \in DOMAIN table : Score(i) > 0}
    IN  IF scored = {}
        THEN None
        ELSE table[CHOOSE i \in scored :
                       \A j \in scored : Score(i) < Score(j) \/ (Score(j) = Score(i) /\ i <= j)].id

\* PRIORITY 2 keeping the entries of score 0 as well
Priority2_NonNegative(table, needs, ctx) ==
    LET Score(i) == _calculate_match_score(table[i], needs, ctx)
        scored == {i \in DOMAIN table : Score(i) >= 0}
    IN  IF scored = {}
        THEN None
        ELSE table[CHOOSE i \in scored :
                       \A j \in scored : Score(j) < Score(i) \/ (Score(j) = Score(i) /\ i <= j)].id

\* PRIORITY 2 returning the last entry of the table among those of maximal score
Priority2_LastOfTies(table, needs, ctx) ==
    LET Score(i) == _calculate_match_score(table[i], needs, ctx)
        scored == {i \in DOMAIN table : Score(i) > 0}
    IN  IF scored = {}
        THEN None
        ELSE table[CHOOSE i \in scored :
                       \A j \in scored : Score(j) < Score(i) \/ (Score(j) = Score(i) /\ j <= i)].id

\* PRIORITY 2: need-based scoring; sort(reverse=True) is stable, so the first
\* entry of the table among those of maximal score is scored_activities[0]
Priority2(table, needs, ctx) ==
    LET Score(i) == _calculate_match_score(table[i], needs, ctx)
        scored == {i \in DOMAIN table : Score(i) > 0}
    IN  IF scored = {}
        THEN None
        ELSE table[CHOOSE i \in scored :
                       \A j \in scored : Score(j) < Score(i) \/ (Score(j) = Score(i) /\ i <= j)].id

\* select_best_activity trying PRIORITY 1 before PRIORITY 0
select_best_activity_ExplicitFirst(table, user_message, user_needs, ctx, language) ==
    LET p0 == Priority0(table, user_message, ctx)
        p1 == Priority1(table, user_message)
        p2 == Priority2(table, user_needs, ctx)
        Return(id, tier) ==
            [activity |-> _format_activity(Profile(table, id), language),
             context |-> add_suggestion(ctx, id), tier |-> tier]
    IN  IF p1 # None THEN Return(p1, 2)
        ELSE IF p0 # None THEN Return(p0, 1)
        ELSE IF p2 # None THEN Return(p2, 3)
        ELSE [activity |-> NoActivity, context |-> ctx, tier |-> 3]

\* returns the payload (or None), the context as the call leaves it, and the
\* branch that returned (tier 1 = PRIORITY 0, tier 2 = PRIORITY 1, tier 3 = PRIORITY 2)
select_best_activity(table, user_message, user_needs, ctx, language) ==
    LET p0 == Priority0(table, user_message, ctx)
        p1 == Priority1(table, user_message)
        p2 == Priority2(table, user_needs, ctx)
        Return(id, tier) ==
            [activity |-> _format_activity(Profile(table, id), language),
             context |-> add_suggestion(ctx, id), tier |-> tier]
    IN  IF p0 # None THEN Return(p0, 1)
        ELSE IF p1 # None THEN Return(p1, 2)
        ELSE IF p2 # None THEN Return(p2, 3)
        ELSE [activity |-> NoActivity, context |-> ctx, tier |-> 3]

(***************************************************************************)
(* Timing logic and public API                                             *)
(***************************************************************************)
\* shouldSuggestActivity with Rule 1 written as `< 1`
shouldSuggestActivity_InvitationOnly(emotionData, messageContent, conversationTurnCount, lastAssistantMessage, ctx) ==
    IF conversationTurnCount <= 1 THEN FALSE
    ELSE IF Search(explicit_keywords, messageContent) THEN TRUE
    ELSE IF ctx # NoContext /\ ctx.has_suggested_in_session THEN FALSE
    ELSE Search(invitation_keywords, lastAssistantMessage)

shouldSuggestActivity_LateOnly(emotionData, messageContent, conversationTurnCount, lastAssistantMessage, ctx) ==
    IF conversationTurnCount < 1 THEN FALSE
    ELSE IF Search(explicit_keywords, messageContent) THEN TRUE
    ELSE IF ctx # NoContext /\ ctx.has_suggested_in_session THEN FALSE
    ELSE Search(invitation_keywords, lastAssistantMessage)
         /\ Search(agreement_keywords, messageContent)

\* shouldSuggestActivity with Rule 3 tested before Rule 2
shouldSuggestActivity_ExhaustionFirst(emotionData, messageContent, conversationTurnCount, lastAssistantMessage, ctx) ==
    IF conversationTurnCount <= 1 THEN FALSE
    ELSE IF ctx # NoContext /\ ctx.has_suggested_in_session THEN FALSE
    ELSE IF Search(explicit_keywords, messageContent) THEN TRUE
    ELSE Search(invitation_keywords, lastAssistantMessage)
         /\ Search(agreement_keywords, messageContent)

shouldSuggestActivity(emotionData, messageContent, conversationTurnCount, lastAssistantMessage, ctx) ==
    \* Rule 1: too early
    IF conversationTurnCount <= 1 THEN FALSE
    \* Rule 2: explicit intent
    ELSE IF Search(explicit_keywords, messageContent) THEN TRUE
    \* Rule 3: already suggested in this session
    ELSE IF ctx # NoContext /\ ctx.has_suggested_in_session THEN FALSE
    \* Rule 4: user agreement after invitation
    ELSE Search(invitation_keywords, lastAssistantMessage)
         /\ Search(agreement_keywords, messageContent)

\* the outcome of a call made when datetime.now().hour is `now`
getSuggestedActivityAt(table, emotionData, userMessage, userLanguage, ctx, now) ==
    LET c == IF ctx = NoContext THEN ConversationContext(0, {}) ELSE ctx
        needs == NeedsAt(userMessage, emotionData, now)
    IN  [select_best_activity(table, userMessage, needs, c, userLanguage)
            EXCEPT !.context = IF ctx = NoContext THEN NoContext ELSE @]

\* the outcomes of one call; they differ only in the hour datetime.now() gives
getSuggestedActivity(table, emotionData, userMessage, userLanguage, ctx) ==
    LET c == IF ctx = NoContext THEN ConversationContext(0, {}) ELSE ctx
    IN  {[select_best_activity(table, userMessage, needs, c, userLanguage)
             EXCEPT !.context = IF ctx = NoContext THEN NoContext ELSE @]
         : needs \in analyze_user_needs(userMessage, emotionData, NoHour)}

generateSuggestionMessage(activity) == {activity.name}

(***************************************************************************)
(* Inputs                                                                  *)
(***************************************************************************)
Emotions ==
    {"neutral", "anxious", "stressed", "overwhelmed", "sad", "depressed",
     "angry", "frustrated", "refuse"}

EnergyLevels == 1 .. 10

\* affect readings, with and without the two fields the engine reads
AffectReadings ==
    [emotion_state : Emotions, energy_level : EnergyLevels]
    \cup [emotion_state : Emotions] \cup [energy_level : EnergyLevels]
    \cup {[k \in {} |-> 0]}

HourArgs == WallClock \cup {NoHour}

Idle == [op |-> "idle"]

(***************************************************************************)
(* SpecNeeds: analyze_user_needs applied to every message of signal        *)
(* phrases, affect reading and hour argument                               *)
(***************************************************************************)
InitNeeds ==
    /\ catalog = ACTIVITIES
    /\ context = NoContext
    /\ args \in [op : {"analyze_user_needs"},
                 user_message : BoundedSubsets(SignalWords, MaxMsgWords),
                 emotion_data : AffectReadings]
    /\ call = Idle
    /\ messages = <<>>
    /\ pending = {}
    /\ turns = <<>>
    /\ offered = <<>>
    /\ conversations = NoConversations
    /\ cache = NoConversations

AnalyzeUserNeeds ==
    /\ args.op = "analyze_user_needs"
    /\ call = Idle
    /\ \E hour \in HourArgs :
         \E needs \in analyze_user_needs(args.user_message, args.emotion_data, hour) :
            call' = [op |-> "analyze_user_needs", user_message |-> args.user_message,
                     emotion_data |-> args.emotion_data, current_hour |-> hour,
                     needs |-> needs]
    /\ UNCHANGED <<catalog, conversations, cache, context, args, messages, pending, turns, offered>>

NextNeeds == AnalyzeUserNeeds

SpecNeeds == InitNeeds /\ [][NextNeeds]_vars

NeedFields ==
    {"need_calming", "need_distraction", "need_activation", "need_processing", "urgency"}

\* C1: every dimension of the vector analyze_user_needs returns lies in [0,1],
\* for every message, affect reading and hour
NeedsWithinUnitInterval ==
    call.op = "analyze_user_needs" =>
        \A f \in NeedFields : 0 <= call.needs[f] /\ call.needs[f] <= NeedOne

\* C1 witness: only the refuse emotion and a refusal signal apply, and
\* need_processing, whose sum is -0.7, comes out as 0
RefusalOnlyClamped ==
    /\ call.op = "analyze_user_needs"
    /\ call.user_message = {"not now"}
    /\ call.emotion_data = [emotion_state |-> "refuse", energy_level |-> 5]
    /\ call.needs.need_processing = 0
    /\ call.needs.need_distraction = NeedOne

(***************************************************************************)
(* SpecGate: shouldSuggestActivity applied to every message, turn count,   *)
(* last assistant message and context                                      *)
(***************************************************************************)
UserMessages == BoundedSubsets(Vocabulary, MaxMsgWords)

AssistantMessages == BoundedSubsets(ReplyWords, MaxMsgWords)

TurnCounts == 0 .. MaxTurn

SampleAffects ==
    {[emotion_state |-> "neutral", energy_level |-> 5],
     [emotion_state |-> "anxious", energy_level |-> 3]}

\* the contexts a caller can hand to the gate for a given turn: none, one that
\* has not suggested yet, one that has
GateContexts(turn, last) ==
    {NoContext, ConversationContext(turn, last)}
    \cup {add_suggestion(ConversationContext(turn, last), id) : id \in {"healing_studio"}}

InitGate ==
    /\ catalog = ACTIVITIES
    /\ args \in [op : {"shouldSuggestActivity"},
                 emotionData : SampleAffects,
                 messageContent : UserMessages,
                 conversationTurnCount : TurnCounts,
                 lastAssistantMessage : AssistantMessages]
    /\ context \in GateContexts(args.conversationTurnCount, args.lastAssistantMessage)
    /\ call = Idle
    /\ messages = <<>>
    /\ pending = {}
    /\ turns = <<>>
    /\ offered = <<>>
    /\ conversations = NoConversations
    /\ cache = NoConversations

ShouldSuggestActivity ==
    /\ args.op = "shouldSuggestActivity"
    /\ call = Idle
    /\ call' = [op |-> "shouldSuggestActivity",
                messageContent |-> args.messageContent,
                conversationTurnCount |-> args.conversationTurnCount,
                lastAssistantMessage |-> args.lastAssistantMessage,
                result |-> shouldSuggestActivity(args.emotionData, args.messageContent,
                               args.conversationTurnCount, args.lastAssistantMessage,
                               context)]
    /\ UNCHANGED <<catalog, conversations, cache, context, args, messages, pending, turns, offered>>

NextGate == ShouldSuggestActivity

SpecGate == InitGate /\ [][NextGate]_vars

IsGateCall == call.op = "shouldSuggestActivity"

Exhausted == context # NoContext /\ context.has_suggested_in_session

\* C2: shouldSuggestActivity returns false whenever conversationTurnCount <= 1
TooEarlyNeverSuggests ==
    IsGateCall /\ call.conversationTurnCount <= 1 => call.result = FALSE

\* C2 witness: a call at turn 1 whose message holds an explicit activity keyword
\* and whose last assistant message holds an invitation returned false
TooEarlyExplicitRefused ==
    /\ IsGateCall
    /\ call.conversationTurnCount = 1
    /\ call.messageContent = {"music", "ok"}
    /\ Search(invitation_keywords, call.lastAssistantMessage)
    /\ call.result = FALSE

\* C3: past turn 1, a message holding an explicit activity keyword of the gate
\* makes shouldSuggestActivity return true, whatever the context and the last
\* assistant message
ExplicitAlwaysSuggests ==
    IsGateCall /\ call.conversationTurnCount > 1
               /\ Search(explicit_keywords, call.messageContent)
        => call.result = TRUE

\* C3 witness: an explicit request on an exhausted context, with no invitation
\* in the last assistant message, returned true
ExplicitOverridesExhaustion ==
    /\ IsGateCall
    /\ Exhausted
    /\ call.conversationTurnCount = 2
    /\ call.messageContent = {"music"}
    /\ call.lastAssistantMessage = {}
    /\ call.result = TRUE

(***************************************************************************)
(* SpecSelect: select_best_activity applied once to a context              *)
(***************************************************************************)
\* the attributes _calculate_match_score reads, the id apart
ScoringAttributes(a) ==
    <<a.provides_calming, a.provides_distraction, a.provides_activation,
      a.provides_processing, a.commitment_level, a.immediacy, a.requires_talking,
      a.base_priority>>

\* the table with entry j given the scoring attributes of entry i
Twin(table, i, j) ==
    [table EXCEPT ![j] =
        [@ EXCEPT !.provides_calming = table[i].provides_calming,
                  !.provides_distraction = table[i].provides_distraction,
                  !.provides_activation = table[i].provides_activation,
                  !.provides_processing = table[i].provides_processing,
                  !.commitment_level = table[i].commitment_level,
                  !.immediacy = table[i].immediacy,
                  !.requires_talking = table[i].requires_talking,
                  !.base_priority = table[i].base_priority]]

\* the table of the source, and one whose rest_sounds entry scores as breathing does
Catalogs == {ACTIVITIES, Twin(ACTIVITIES, 1, 3)}

\* the table with the entries of the given ids taken out
Without(table, ids) ==
    LET Kept(a) == a.id \notin ids
    IN  SelectSeq(table, Kept)

\* the table of the source, and one that holds no entry of the music domain
SparseCatalogs == {ACTIVITIES, Without(ACTIVITIES, {"healing_studio", "rest_sounds"})}

SeqsUpTo(S, n) == UNION {[1 .. k -> S] : k \in 0 .. n}

\* a context as earlier calls of add_suggestion leave it
ContextWith(turn_count, last, history) ==
    [turn_count |-> turn_count, last_assistant_message |-> last,
     suggested_activities |-> history, has_suggested_in_session |-> history # <<>>]

NeedsVectors(calming, distraction, activation, processing, urgencies) ==
    [need_calming : calming, need_distraction : distraction, need_activation : activation,
     need_processing : processing, urgency : urgencies]

\* needs vectors on both sides of every threshold of the scoring formula
ScoringNeeds ==
    NeedsVectors({0, 30, 50, 100}, {0, 30, 40, 70, 80}, {0, 60}, {0, 90}, {0, 60, 61})

TierNeeds == NeedsVectors({0, 100}, {0}, {0}, {0, 90}, {0})

IntentMessages == BoundedSubsets(IntentWords, MaxMsgWords)

Languages == {"vi", "en"}

\* the scored branch under every history, needs vector and table
ScoringCases ==
    [op : {"select_best_activity"},
     table : Catalogs,
     user_message : {{}, {"ok"}, {"routine"}, {"exercise"}},
     user_needs : ScoringNeeds,
     context : {ContextWith(t, {}, h) : t \in {4, 5},
                   h \in SeqsUpTo({"breathing", "rest_sounds"}, MaxSuggestions)},
     language : {"vi"}]

\* the two keyword branches under every message and last assistant message
TierCases ==
    [op : {"select_best_activity"},
     table : SparseCatalogs,
     user_message : IntentMessages,
     user_needs : TierNeeds,
     context : {ContextWith(5, last, h) : last \in AssistantMessages,
                   h \in {<<>>, <<"healing_studio">>, <<"journaling", "breathing">>}},
     language : Languages]

\* needs under which entries of the catalog of the source share the maximum
TieNeeds == NeedsVectors({0}, {50}, {40, 50}, {0, 40}, {0})

\* the scored branch on the catalog of the source under the needs of TieNeeds
TieCases ==
    [op : {"select_best_activity"},
     table : {ACTIVITIES},
     user_message : {{}},
     user_needs : TieNeeds,
     context : {ContextWith(t, {}, h) : t \in {4, 5}, h \in {<<>>, <<"breathing">>}},
     language : {"vi"}]

InitSelect ==
    /\ \E c \in ScoringCases \cup TierCases \cup TieCases :
          /\ catalog = c.table
          /\ args = [f \in DOMAIN c \ {"table"} |-> c[f]]
          /\ context = c.context
    /\ call = Idle
    /\ messages = <<>>
    /\ pending = {}
    /\ turns = <<>>
    /\ offered = <<>>
    /\ conversations = NoConversations
    /\ cache = NoConversations

SelectBestActivity ==
    /\ args.op = "select_best_activity"
    /\ call = Idle
    /\ LET r == select_best_activity(catalog, args.user_message, args.user_needs,
                                     context, args.language)
       IN  /\ context' = r.context
           /\ call' = [op |-> "select_best_activity", activity |-> r.activity,
                       tier |-> r.tier]
    /\ UNCHANGED <<catalog, conversations, cache, args, messages, pending, turns, offered>>

NextSelect == SelectBestActivity

SpecSelect == InitSelect /\ [][NextSelect]_vars

IsSelectCall == call.op = "select_best_activity"

\* the ids select_best_activity walks through for each domain
DomainEntries ==
    [music |-> {"healing_studio", "rest_sounds"},
     breathing |-> {"breathing", "release_stress"},
     journaling |-> {"journaling"},
     routine |-> {"healing_routine"}]

\* the domains a last assistant message references
OfferedIn(last) ==
    {d \in DOMAIN DomainEntries :
        Search((CASE d = "music" -> offered_music
                  [] d = "breathing" -> offered_breathing
                  [] d = "journaling" -> offered_journaling
                  [] OTHER -> offered_routine), last)}

\* the domains a user message names, by the patterns of ExplicitIntentSignals
NamedIn(msg) ==
    {d \in DOMAIN DomainEntries :
        Search((CASE d = "music" -> MUSIC
                  [] d = "breathing" -> BREATHING
                  [] d = "journaling" -> JOURNALING
                  [] OTHER -> ROUTINE), msg)}

\* C6: when the message holds an agreement token and the last assistant message
\* references an activity domain, select_best_activity returns an entry of a
\* referenced domain, the same one it returns under zero needs and an empty
\* suggestion history
AgreedOfferBypassesScoring ==
    IsSelectCall /\ Search(agreement_keywords, args.user_message)
                 /\ OfferedIn(args.context.last_assistant_message) # {}
                 /\ (\A id \in ActivityIds : InCatalog(catalog, id))
        => /\ call.tier = 1
           /\ \E d \in OfferedIn(args.context.last_assistant_message) :
                  call.activity.activity_type \in DomainEntries[d]
           /\ call.activity =
                  select_best_activity(catalog, args.user_message, UserNeeds,
                      ContextWith(args.context.turn_count,
                                  args.context.last_assistant_message, <<>>),
                      args.language).activity

\* C6 witness: "ok" after an offer of music, with high need for calming and for
\* processing and healing_studio already suggested, returned healing_studio
AgreedToMusicDespiteNeeds ==
    /\ IsSelectCall
    /\ args.user_message = {"ok"}
    /\ args.context.last_assistant_message = {"would you like", "music"}
    /\ args.context.suggested_activities = <<"healing_studio">>
    /\ args.user_needs.need_calming = 100
    /\ args.user_needs.need_processing = 90
    /\ call.activity.activity_type = "healing_studio"

\* C7: when the continuation branch does not return and the message names one
\* of the four explicit-intent domains, select_best_activity returns an entry
\* of a named domain without scoring; a message naming the routine domain
\* yields healing_routine
NamedDomainSelected ==
    IsSelectCall /\ Priority0(catalog, args.user_message, args.context) = None
                 /\ NamedIn(args.user_message) # {}
        => /\ call.tier = 2
           /\ \E d \in NamedIn(args.user_message) :
                  call.activity.activity_type \in DomainEntries[d]
           /\ (NamedIn(args.user_message) = {"routine"}
                  => call.activity.activity_type = "healing_routine")

\* the scores of the entries as the call saw them
ScoreBefore(i) == _calculate_match_score(catalog[i], args.user_needs, args.context)

\* C8: when the scored branch is reached, None is returned iff no entry scores
\* above 0, and otherwise the returned entry's score is the maximum of all
ScoredBranchReturnsMaximum ==
    IsSelectCall /\ call.tier = 3
        => /\ (call.activity = NoActivity) <=> (\A i \in DOMAIN catalog : ScoreBefore(i) <= 0)
           /\ call.activity # NoActivity
                  => \E i \in DOMAIN catalog :
                        /\ catalog[i].id = call.activity.activity_type
                        /\ \A j \in DOMAIN catalog : ScoreBefore(j) <= ScoreBefore(i)

\* C8 witness: the scored branch returned an entry while another entry scored
\* above 0 and below it
ScoredBranchChoseAmongSeveral ==
    /\ IsSelectCall
    /\ call.tier = 3
    /\ call.activity # NoActivity
    /\ \E i, j \in DOMAIN catalog :
          /\ catalog[i].id = call.activity.activity_type
          /\ 0 < ScoreBefore(j)
          /\ ScoreBefore(j) < ScoreBefore(i)

\* the ids in the last 3 entries of the history (the whole of it when shorter)
RecentIds(history) ==
    {history[k] : k \in {n \in DOMAIN history : n > Len(history) - 3}}

\* C9: in the scored branch, of two entries equal in every scoring attribute,
\* one in the last 3 entries of suggested_activities and the other not, the
\* recent one is not selected; and an entry's score is that under an empty
\* history less 30 (floored at 0) exactly when its id is in the last 3 entries
RecentTwinNeverSelected ==
    IsSelectCall /\ call.tier = 3
        => /\ \A i, j \in DOMAIN catalog :
                  /\ ScoringAttributes(catalog[i]) = ScoringAttributes(catalog[j])
                  /\ catalog[i].id \in RecentIds(args.context.suggested_activities)
                  /\ catalog[j].id \notin RecentIds(args.context.suggested_activities)
                  => call.activity.activity_type # catalog[i].id
           /\ \A i \in DOMAIN catalog :
                  LET fresh == _calculate_match_score(catalog[i], args.user_needs,
                                   ContextWith(args.context.turn_count, {}, <<>>))
                  IN  ScoreBefore(i) =
                          IF catalog[i].id \in RecentIds(args.context.suggested_activities)
                          THEN Max(0, fresh - 30 * ScoreOne)
                          ELSE fresh

\* C9 witness: rest_sounds scores as breathing does, breathing was suggested
\* within the last 3 entries and rest_sounds only before them, and rest_sounds
\* was selected
OlderTwinSelected ==
    /\ IsSelectCall
    /\ call.tier = 3
    /\ ScoringAttributes(catalog[1]) = ScoringAttributes(catalog[3])
    /\ args.context.suggested_activities
           = <<"rest_sounds", "breathing", "breathing", "breathing">>
    /\ call.activity.activity_type = "rest_sounds"

\* C10: a call that returns a payload appends exactly its activity_type, a key
\* of the table, to suggested_activities; a call that returns None leaves
\* suggested_activities and has_suggested_in_session as they were
SelectionRecordedOnce ==
    IsSelectCall
        => IF call.activity # NoActivity
           THEN /\ context.suggested_activities
                       = Append(args.context.suggested_activities, call.activity.activity_type)
                /\ InCatalog(catalog, call.activity.activity_type)
           ELSE /\ context.suggested_activities = args.context.suggested_activities
                /\ context.has_suggested_in_session = args.context.has_suggested_in_session

\* C10 witness: a payload returned on a context that already held two ids left
\* three, the last being the payload's
ThirdSuggestionRecorded ==
    /\ IsSelectCall
    /\ call.activity # NoActivity
    /\ Len(args.context.suggested_activities) = 2
    /\ Len(context.suggested_activities) = 3
    /\ context.suggested_activities[3] = call.activity.activity_type

(***************************************************************************)
(* Spec: one ConversationContext handed to the public API turn after turn  *)
(***************************************************************************)
SessionMessages == {{}, {"ok"}, {"music"}, {"overwhelmed"}}

SessionReplies == {{}, {"would you like"}, {"would you like", "music"}}

Init ==
    /\ catalog = ACTIVITIES
    /\ context = ConversationContext(0, {})
    /\ args = Idle
    /\ call = Idle
    /\ messages = <<>>
    /\ pending = {}
    /\ turns = <<>>
    /\ offered = <<>>
    /\ conversations = NoConversations
    /\ cache = NoConversations

\* the caller moves the context on to the next turn
CallerTurn ==
    /\ context.turn_count < MaxTurn
    /\ \E last \in SessionReplies :
          context' = [context EXCEPT !.turn_count = @ + 1,
                                     !.last_assistant_message = last]
    /\ call' = Idle
    /\ UNCHANGED <<catalog, conversations, cache, args, messages, pending, turns, offered>>

SessionShouldSuggest ==
    /\ \E emotionData \in SampleAffects, messageContent \in SessionMessages :
          call' = [op |-> "shouldSuggestActivity",
                   messageContent |-> messageContent,
                   conversationTurnCount |-> context.turn_count,
                   lastAssistantMessage |-> context.last_assistant_message,
                   result |-> shouldSuggestActivity(emotionData, messageContent,
                                  context.turn_count, context.last_assistant_message,
                                  context)]
    /\ UNCHANGED <<catalog, conversations, cache, context, args, messages, pending, turns, offered>>

SessionGetSuggested ==
    /\ Len(context.suggested_activities) < MaxSuggestions
    /\ \E emotionData \in SampleAffects, userMessage \in SessionMessages :
          \E r \in getSuggestedActivity(catalog, emotionData, userMessage, "vi", context) :
              /\ context' = r.context
              /\ call' = [op |-> "getSuggestedActivity", userMessage |-> userMessage,
                          activity |-> r.activity, tier |-> r.tier]
              /\ offered' = IF r.activity # NoActivity
                            THEN Append(offered, [activity_type |-> r.activity.activity_type,
                                                  tier |-> r.tier])
                            ELSE offered
    /\ UNCHANGED <<catalog, conversations, cache, args, messages, pending, turns>>

Next == CallerTurn \/ SessionShouldSuggest \/ SessionGetSuggested

Spec == Init /\ [][Next]_vars

\* getSuggestedActivity has returned an entry chosen by need-based scoring
ScoredSuggestionMade == \E k \in DOMAIN offered : offered[k].tier = 3

\* C4: once getSuggestedActivity has returned an entry chosen by need-based
\* scoring on a context, every call of shouldSuggestActivity with that context
\* and a message holding no explicit activity keyword returns false
ExhaustedAfterScoredSuggestion ==
    ScoredSuggestionMade /\ IsGateCall /\ ~Search(explicit_keywords, call.messageContent)
        => call.result = FALSE

\* C4 witness: after a scored suggestion, "ok" answering an invitation past
\* turn 1 was refused
AgreementRefusedAfterScoredSuggestion ==
    /\ ScoredSuggestionMade
    /\ IsGateCall
    /\ call.conversationTurnCount > 1
    /\ call.messageContent = {"ok"}
    /\ Search(invitation_keywords, call.lastAssistantMessage)
    /\ call.result = FALSE

(***************************************************************************)
(* SpecStream: streamChatResponse over the stored messages of one          *)
(* conversation                                                            *)
(***************************************************************************)
\* emotion_keywords, in dict order, each list as the phrases it matches
emotion_keywords ==
    << [emotion |-> "anxious", keywords |-> {"anxious"}],
       [emotion |-> "sad", keywords |-> {"sad"}],
       [emotion |-> "happy", keywords |-> {"happy"}],
       [emotion |-> "angry", keywords |-> {"angry"}],
       [emotion |-> "tired", keywords |-> {"tired"}],
       [emotion |-> "stressed", keywords |-> {"overwhelmed"}],
       [emotion |-> "calm", keywords |-> {"calm"}],
       [emotion |-> "confused", keywords |-> {"confused"}] >>

\* energy_map with anger read as high energy
energy_map_AngryHigh ==
    [happy |-> 8, excited |-> 9, calm |-> 6, peaceful |-> 7, tired |-> 3, sad |-> 4,
     anxious |-> 4, depressed |-> 2, stressed |-> 3, angry |-> 7, overwhelmed |-> 2,
     neutral |-> 5, confused |-> 4]

energy_map ==
    [happy |-> 8, excited |-> 9, calm |-> 6, peaceful |-> 7, tired |-> 3, sad |-> 4,
     anxious |-> 4, depressed |-> 2, stressed |-> 3, angry |-> 6, overwhelmed |-> 2,
     neutral |-> 5, confused |-> 4]

\* the first emotion whose keywords occur, neutral when none does
analyzeEmotionSimple(message) ==
    LET hits == {k \in DOMAIN emotion_keywords : Search(emotion_keywords[k].keywords, message)}
        detected_emotion ==
            IF hits = {} THEN "neutral"
            ELSE emotion_keywords[CHOOSE k \in hits : \A j \in hits : k <= j].emotion
    IN  [emotion_state |-> detected_emotion, energy_level |-> energy_map[detected_emotion]]

\* isSimplePattern returns False for every message: the fast path is never taken
isSimplePattern(message) == FALSE

ContextLimit == 20

\* the arrangements of the rows of indices S by increasing sequence_number;
\* rows of equal sequence_number come in either order
RECURSIVE Orderings(_, _)
Orderings(rows, S) ==
    IF S = {} THEN {<<>>}
    ELSE UNION {{<<rows[i]>> \o o : o \in Orderings(rows, S \ {i})} :
                   i \in {i \in S : \A j \in S :
                             rows[i].sequence_number <= rows[j].sequence_number}}

\* the results the query can give: the `limit` rows of highest
\* sequence_number, oldest first
getConversationContext(rows, limit) ==
    {IF Len(o) <= limit THEN o ELSE LastEntries(o, limit) : o \in Orderings(rows, DOMAIN rows)}

\* Message declares no metadata column: on a row the attribute is the
\* MetaData object of the declarative Base
metadata(msg) == [kind |-> "MetaData"]

\* for msg in reversed(contextMessages): if msg.role == "assistant": ...; break
LastAssistantContent(contextMessages) ==
    LET assistant == {k \in DOMAIN contextMessages : contextMessages[k].role = "assistant"}
    IN  IF assistant = {} THEN {}
        ELSE contextMessages[CHOOSE k \in assistant : \A j \in assistant : j <= k].content

\* the "Rebuild context state" loop over the first n rows
RECURSIVE RebuildContext(_, _, _)
RebuildContext(ctx, contextMessages, n) ==
    IF n = 0 THEN ctx
    ELSE LET before == RebuildContext(ctx, contextMessages, n - 1)
             msg == contextMessages[n]
         IN  IF /\ msg.role = "assistant"
                /\ metadata(msg).kind = "dict"
                /\ metadata(msg).suggestion # NoActivity
             THEN add_suggestion(before, metadata(msg).suggestion.activity_type)
             ELSE before

StreamMessages == {{"ok"}, {"music"}, {"ok", "overwhelmed"}}

StreamReplies == {{}, {"would you like"}, {"would you like", "music"}}

InitStream ==
    /\ catalog = ACTIVITIES
    /\ context = NoContext
    /\ args = Idle
    /\ call = Idle
    /\ messages = <<>>
    /\ pending = {}
    /\ turns = <<>>
    /\ offered = <<>>
    /\ conversations = NoConversations
    /\ cache = NoConversations

\* phases 2 to 4 of a request that loaded contextMessages when `began` turns
\* had been answered; `reply` is what the language model streams back
Respond(message, reply, contextMessages, began) ==
    LET emotionData == analyzeEmotionSimple(message)
        seqNum == Len(contextMessages) + 1
        lastAssistantMsg == LastAssistantContent(contextMessages)
        ctx == RebuildContext(ConversationContext(seqNum, lastAssistantMsg),
                              contextMessages, Len(contextMessages))
        Finish(opened, activity, after) ==
            /\ context' = after
            /\ pending' = pending \cup
                              {[requestMessage |-> message,
                                aiContent |-> IF activity = NoActivity THEN reply
                                              ELSE reply \cup generateSuggestionMessage(activity),
                                seqNum |-> seqNum,
                                suggestion |-> activity,
                                turn |-> Len(turns) + 1]}
            /\ turns' = Append(turns,
                            [explicit |-> Search(explicit_keywords, message),
                             gate |-> opened,
                             suggestion |-> activity.activity_type,
                             seqNum |-> seqNum,
                             began |-> began])
            /\ call' = [op |-> "streamChatResponse", message |-> message,
                        seqNum |-> seqNum, suggestion |-> activity]
    IN  /\ ~isSimplePattern(message)
        /\ IF shouldSuggestActivity(emotionData, message, seqNum, lastAssistantMsg, ctx)
           THEN \E r \in getSuggestedActivity(catalog, emotionData, message, "vi", ctx) :
                    Finish(TRUE, r.activity, r.context)
           ELSE Finish(FALSE, NoActivity, ctx)

\* one request on the conversation, sent once the previous turn is stored
StreamChatResponse ==
    /\ Len(turns) < MaxStreamTurns
    /\ pending = {}
    /\ \E message \in StreamMessages, reply \in StreamReplies :
          \E contextMessages \in getConversationContext(messages, ContextLimit) :
              Respond(message, reply, contextMessages, Len(turns))
    /\ UNCHANGED <<catalog, conversations, cache, args, messages, offered>>

\* the background task stores the user message and the reply of the turn
SaveChatTurn ==
    /\ \E task \in pending :
          /\ messages' = messages \o
                 << [role |-> "user", content |-> task.requestMessage,
                     sequence_number |-> task.seqNum],
                    [role |-> "assistant", content |-> task.aiContent,
                     sequence_number |-> task.seqNum + 1] >>
          /\ pending' = pending \ {task}
    /\ UNCHANGED <<catalog, conversations, cache, context, args, call, turns, offered>>

NextStream == StreamChatResponse \/ SaveChatTurn

SpecStream == InitStream /\ [][NextStream]_vars

\* C5: over the turns of one conversation handled by streamChatResponse, once
\* a suggestion was produced, a later turn whose message holds no explicit
\* activity keyword produces none
OneImplicitSuggestionPerConversation ==
    \A j, k \in DOMAIN turns :
        j < k /\ turns[j].suggestion # None /\ ~turns[k].explicit
            => turns[k].suggestion = None

(***************************************************************************)
(* Further properties of select_best_activity (SpecSelect)                 *)
(***************************************************************************)
\* C11: a selection made by the continuation branch or by the explicit-request
\* branch appends the chosen id to suggested_activities and leaves
\* has_suggested_in_session at its previous value
FlagSetOnlyByScoredSelection ==
    IsSelectCall /\ call.activity # NoActivity /\ call.tier \in {1, 2}
        => /\ context.suggested_activities
                  = Append(args.context.suggested_activities, call.activity.activity_type)
           /\ context.has_suggested_in_session = args.context.has_suggested_in_session

\* C19: for the all-zero needs vector the scored branch gives no entry a score
\* above 0 and returns None, at every turn_count and under every history
ZeroNeedsNeverSelects ==
    IsSelectCall /\ call.tier = 3 /\ args.user_needs = UserNeeds
        => /\ \A i \in DOMAIN catalog : ScoreBefore(i) <= 0
           /\ call.activity = NoActivity

(***************************************************************************)
(* Further properties of the session (Spec)                                *)
(***************************************************************************)
IsPrefix(s, t) == Len(s) <= Len(t) /\ SubSeq(t, 1, Len(s)) = s

\* a step taken by shouldSuggestActivity or getSuggestedActivity
CoreStep == call'.op \in {"shouldSuggestActivity", "getSuggestedActivity"}

\* C12: over the calls of shouldSuggestActivity and getSuggestedActivity on one
\* context, suggested_activities before a call is a prefix of the list after
\* it, has_suggested_in_session never returns to false, and turn_count and
\* last_assistant_message are left as the caller set them
CoreOnlyReadsAndAppends ==
    [][CoreStep =>
          /\ IsPrefix(context.suggested_activities, context'.suggested_activities)
          /\ (context.has_suggested_in_session => context'.has_suggested_in_session)
          /\ context'.turn_count = context.turn_count
          /\ context'.last_assistant_message = context.last_assistant_message]_vars

\* C12 witness: a third suggestion was appended to a context holding two
ThreeSuggestionsKept ==
    /\ call.op = "getSuggestedActivity"
    /\ call.activity # NoActivity
    /\ Len(context.suggested_activities) = 3
    /\ Len(offered) = 3
    /\ \A k \in 1 .. 3 : context.suggested_activities[k] = offered[k].activity_type
    /\ context.suggested_activities[1] # context.suggested_activities[3]

(***************************************************************************)
(* Further properties of shouldSuggestActivity (SpecGate)                  *)
(***************************************************************************)
\* C13: past turn 1, without an explicit activity keyword and on a context that
\* is not exhausted, shouldSuggestActivity returns true iff the last assistant
\* message holds an invitation phrase and the message an agreement token
InvitationAgreementPairing ==
    IsGateCall /\ call.conversationTurnCount > 1
               /\ ~Search(explicit_keywords, call.messageContent)
               /\ ~Exhausted
        => (call.result <=> /\ Search(invitation_keywords, call.lastAssistantMessage)
                            /\ Search(agreement_keywords, call.messageContent))

\* C13 witness: a bare refusal at turn 2 with no invitation before it was
\* answered false
BareRefusalNotSuggested ==
    /\ IsGateCall
    /\ ~Exhausted
    /\ call.conversationTurnCount = 2
    /\ call.messageContent = {"not now"}
    /\ call.lastAssistantMessage = {}
    /\ call.result = FALSE

(***************************************************************************)
(* Further properties of analyze_user_needs (SpecNeeds)                    *)
(***************************************************************************)
IsNeedsCall == call.op = "analyze_user_needs"

\* the reading with its missing fields set to neutral and 5
Completed(emotion_data) ==
    [emotion_state |-> IF "emotion_state" \in DOMAIN emotion_data
                       THEN emotion_data.emotion_state ELSE "neutral",
     energy_level |-> IF "energy_level" \in DOMAIN emotion_data
                      THEN emotion_data.energy_level ELSE 5]

\* C15: for every message and hour, the needs vector computed from a reading
\* that lacks the emotion label or the energy level is the one computed, at
\* the same hour, from the reading completed with emotion neutral and energy 5
MissingAffectFieldsDefault ==
    IsNeedsCall
        => call.needs \in analyze_user_needs(call.user_message,
                              Completed(call.emotion_data), call.current_hour)

\* C15 witness: a reading with the anxious label and no energy level, on a
\* message carrying the fatigue signal, was analysed as anxious with energy 5
AnxiousWithoutEnergyAnalysed ==
    /\ IsNeedsCall
    /\ call.emotion_data = [emotion_state |-> "anxious"]
    /\ call.user_message = {"tired"}
    /\ call.current_hour = 12
    /\ call.needs = NeedsAt({"tired"}, [emotion_state |-> "anxious", energy_level |-> 5], 12)

NightHours == {22, 23, 0, 1, 2, 3, 4, 5, 6}

\* C20: the night increments follow the hour argument: for current_hour in the
\* night range the vector is the one computed at night, for current_hour in
\* 7..21 the one computed by day, whatever the wall clock
NightLayerFollowsHourArgument ==
    IsNeedsCall /\ call.current_hour # NoHour
        => call.needs = NeedsAt(call.user_message, call.emotion_data,
                                IF call.current_hour \in NightHours THEN 23 ELSE 12)

(***************************************************************************)
(* SpecSuggest: getSuggestedActivity applied once, at some hour of the     *)
(* wall clock                                                              *)
(***************************************************************************)
SuggestAffects == [emotion_state : {"neutral", "anxious"}, energy_level : 1 .. 5]

SuggestContexts ==
    {NoContext} \cup {ContextWith(t, {}, h) : t \in {4, 5}, h \in {<<>>, <<"breathing">>}}

InitSuggest ==
    /\ catalog = ACTIVITIES
    /\ args \in [op : {"getSuggestedActivity"},
                 emotionData : SuggestAffects,
                 userMessage : BoundedSubsets(SignalWords, MaxMsgWords),
                 userLanguage : {"vi"},
                 context : SuggestContexts]
    /\ context = args.context
    /\ call = Idle
    /\ messages = <<>>
    /\ pending = {}
    /\ turns = <<>>
    /\ offered = <<>>
    /\ conversations = NoConversations
    /\ cache = NoConversations

GetSuggestedActivity ==
    /\ args.op = "getSuggestedActivity"
    /\ call = Idle
    /\ \E now \in WallClock :
          LET r == getSuggestedActivityAt(catalog, args.emotionData, args.userMessage,
                                          args.userLanguage, context, now)
          IN  /\ context' = r.context
              /\ call' = [op |-> "getSuggestedActivity", now |-> now,
                          needs |-> NeedsAt(args.userMessage, args.emotionData, now),
                          activity |-> r.activity, tier |-> r.tier]
    /\ UNCHANGED <<catalog, conversations, cache, args, messages, pending, turns, offered>>

NextSuggest == GetSuggestedActivity

SpecSuggest == InitSuggest /\ [][NextSuggest]_vars

IsSuggestCall == call.op = "getSuggestedActivity"

\* C14: a call of getSuggestedActivity returns the same result and leaves the
\* context in the same state as any other call with the same affect reading,
\* message, language and context state, at whatever hour either is made
SameInputsSameSuggestion ==
    IsSuggestCall
        => \A now \in WallClock :
               LET r == getSuggestedActivityAt(catalog, args.emotionData, args.userMessage,
                                               args.userLanguage, args.context, now)
               IN  r.activity = call.activity /\ r.context = context

\* C17: for a message carrying a sleep-issue signal that reaches the scored
\* branch, an anxious reading with energy <= 4, turn_count 4 and a fresh
\* context, at every hour need_calming and urgency exceed 0.5 and the selected
\* entry has energy_required low or very_low and commitment_level <= 2
SleeplessAnxiousGetsLightActivity ==
    IsSuggestCall /\ Search(SLEEP_ISSUES, args.userMessage)
                  /\ args.emotionData.emotion_state = "anxious"
                  /\ args.emotionData.energy_level <= 4
                  /\ args.context = ContextWith(4, {}, <<>>)
                  /\ call.tier = 3
        => /\ call.needs.need_calming > 50
           /\ call.needs.urgency > 50
           /\ call.activity # NoActivity
           /\ Profile(catalog, call.activity.activity_type).energy_required
                  \in {"low", "very_low"}
           /\ Profile(catalog, call.activity.activity_type).commitment_level <= 2

\* C17 witness: "insomnia" with an anxious reading of energy 3 at turn 4, by
\* day, was answered with the breathing exercise
SleeplessAnxiousGotBreathing ==
    /\ IsSuggestCall
    /\ args.userMessage = {"insomnia"}
    /\ args.emotionData = [emotion_state |-> "anxious", energy_level |-> 3]
    /\ args.context = ContextWith(4, {}, <<>>)
    /\ call.now = 12
    /\ call.tier = 3
    /\ call.activity.activity_type = "breathing"

(***************************************************************************)
(* select_best_activity on a table that lacks a domain (SpecSelect)        *)
(***************************************************************************)
\* the first block whose keywords occur in the text, 0 when none does
ResolvedBlock(blocks, text) ==
    IF \E k \in DOMAIN blocks : Search(blocks[k].keywords, text)
    THEN CHOOSE k \in DOMAIN blocks :
             /\ Search(blocks[k].keywords, text)
             /\ \A j \in 1 .. (k - 1) : ~Search(blocks[j].keywords, text)
    ELSE 0

\* the table holds none of the ids of block k
NoEntryFor(blocks, k) == \A id \in Elements(blocks[k].ids) : ~InCatalog(catalog, id)

\* the continuation branch, or else the explicit-request branch, resolved a
\* domain of which the table holds no entry
ResolvedDomainMissing ==
    LET offer == IF Search(agreement_keywords, args.user_message)
                 THEN ResolvedBlock(OfferedDomains, args.context.last_assistant_message)
                 ELSE 0
        named == ResolvedBlock(ExplicitDomains, args.user_message)
    IN  IF offer # 0 THEN NoEntryFor(OfferedDomains, offer)
        ELSE named # 0 /\ NoEntryFor(ExplicitDomains, named)

\* C16: when the table holds no entry of the domain the continuation branch or
\* the explicit-request branch resolved, the result of select_best_activity is
\* the result of need-based scoring on the same needs vector and context
MissingDomainFallsToScoring ==
    IsSelectCall /\ ResolvedDomainMissing
        => LET p2 == Priority2(catalog, args.user_needs, args.context)
           IN  call.activity = IF p2 = None THEN NoActivity
                               ELSE _format_activity(Profile(catalog, p2), args.language)

(***************************************************************************)
(* SpecOverlap: requests on one conversation that overlap in time          *)
(***************************************************************************)
OverlapMessages == {{"ok"}, {"music"}}

OverlapReplies == {{"would you like"}, {"would you like", "music"}}

MaxInFlight == 2

\* `args` holds the requests that have loaded their context and not yet answered
InitOverlap ==
    /\ catalog = ACTIVITIES
    /\ context = NoContext
    /\ args = <<>>
    /\ call = Idle
    /\ messages = <<>>
    /\ pending = {}
    /\ turns = <<>>
    /\ offered = <<>>
    /\ conversations = NoConversations
    /\ cache = NoConversations

\* phase 1 of streamChatResponse: the stored messages are loaded
LoadContext ==
    /\ Len(args) < MaxInFlight
    /\ Len(turns) + Len(args) < MaxStreamTurns
    /\ \E message \in OverlapMessages :
          \E contextMessages \in getConversationContext(messages, ContextLimit) :
              args' = Append(args, [message |-> message, contextMessages |-> contextMessages,
                                    began |-> Len(turns)])
    /\ UNCHANGED <<catalog, conversations, cache, context, call, messages, pending, turns, offered>>

\* phases 2 to 4 of a request in flight
AnswerRequest ==
    /\ \E k \in DOMAIN args, reply \in OverlapReplies :
          /\ Respond(args[k].message, reply, args[k].contextMessages, args[k].began)
          /\ args' = SubSeq(args, 1, k - 1) \o SubSeq(args, k + 1, Len(args))
    /\ UNCHANGED <<catalog, conversations, cache, messages, offered>>

NextOverlap == LoadContext \/ AnswerRequest \/ SaveChatTurn

SpecOverlap == InitOverlap /\ [][NextOverlap]_vars

\* turn k loaded its context before turn j was answered
Overlapping(j, k) == j < k /\ turns[k].began < j

\* C18: two requests of one conversation that overlap in time do not both
\* produce a suggestion on a message holding no explicit activity keyword
OverlappingTurnsSuggestOnce ==
    \A j, k \in DOMAIN turns :
        Overlapping(j, k) /\ ~turns[j].explicit /\ ~turns[k].explicit
            => ~(turns[j].suggestion # None /\ turns[k].suggestion # None)

(***************************************************************************)
(* The score of _calculate_match_score against its closed form (SpecSelect)*)
(***************************************************************************)
NeedWeights ==
    [need_calming |-> 100, need_distraction |-> 80,
     need_activation |-> 70, need_processing |-> 60]

Provided(activity) ==
    [need_calming |-> activity.provides_calming,
     need_distraction |-> activity.provides_distraction,
     need_activation |-> activity.provides_activation,
     need_processing |-> activity.provides_processing]

RECURSIVE SumOver(_, _)
SumOver(f, S) ==
    IF S = {} THEN 0
    ELSE LET d == CHOOSE d \in S : TRUE IN f[d] + SumOver(f, S \ {d})

\* the need-capability sum over the dimensions above the dead zone, in units
\* of 1/10000
NeedCapabilitySum(activity, needs) ==
    LET live == {d \in DOMAIN NeedWeights : needs[d] > 30}
    IN  SumOver([d \in live |-> needs[d] * Provided(activity)[d] * NeedWeights[d]], live)

\* the penalties and base_priority, none of them scaled by the urgency
\* multiplier
Adjustments(activity, needs, ctx) ==
    activity.base_priority
    - (IF needs.urgency > 60 THEN activity.commitment_level * 15 ELSE 0)
    - (IF ctx.turn_count < 5 THEN activity.commitment_level * 10 ELSE 0)
    - (IF needs.need_distraction > 70 /\ activity.requires_talking THEN 20 ELSE 0)
    - (IF activity.id \in RecentIds(ctx.suggested_activities) THEN 30 ELSE 0)

ReferenceScore(activity, needs, ctx) ==
    LET multiplier == IF needs.urgency > 60 THEN 200 + activity.immediacy ELSE 200
    IN  Max(0, NeedCapabilitySum(activity, needs) * multiplier
               + Adjustments(activity, needs, ctx) * ScoreOne)

\* C21: the score of every catalog entry equals the need-capability sum over
\* the dimensions above 0.3, scaled by the urgency multiplier, plus the
\* unscaled penalties and base_priority, floored at 0
ScoreMatchesReference ==
    IsSelectCall =>
        \A i \in DOMAIN catalog :
            ScoreBefore(i) = ReferenceScore(catalog[i], args.user_needs, args.context)

\* an urgent call in an early turn where a recently suggested entry that
\* carries a commitment penalty still scores above its base priority
UrgentPenalisedEntryScored ==
    /\ IsSelectCall
    /\ args.user_needs.urgency > 60
    /\ args.context.turn_count < 5
    /\ \E i \in DOMAIN catalog :
          /\ catalog[i].id \in RecentIds(args.context.suggested_activities)
          /\ catalog[i].commitment_level > 0
          /\ catalog[i].immediacy > 0
          /\ NeedCapabilitySum(catalog[i], args.user_needs) > 0
          /\ ScoreBefore(i) > catalog[i].base_priority * ScoreOne

(***************************************************************************)
(* Order of the three branches of select_best_activity (SpecSelect)        *)
(***************************************************************************)
\* the order in which the blocks of PRIORITY 0 and PRIORITY 1 test the domains
DomainOrder == <<"music", "breathing", "journaling", "routine">>

\* the first entry, in catalog order of the block, of the first domain of S
FirstEntryOf(S) ==
    LET k == CHOOSE k \in DOMAIN DomainOrder :
                 DomainOrder[k] \in S /\ \A j \in 1 .. (k - 1) : DomainOrder[j] \notin S
    IN  OfferedDomains[k].ids[1]

FullCatalog == \A id \in ActivityIds : InCatalog(catalog, id)

\* the agreement branch applies: agreement token and a referenced domain
AgreedToOffer ==
    /\ Search(agreement_keywords, args.user_message)
    /\ OfferedIn(args.context.last_assistant_message) # {}

\* the domains the explicit-intent branch handles that the message names
HandledNamedIn(msg) == NamedIn(msg) \ {"routine"}

\* C22: the branches are tried in order and the first match wins: an agreed
\* offer yields the entry of the referenced domain whatever the message names
\* and whatever the needs are; otherwise a named domain yields its entry; the
\* scored branch runs only when neither of the two returned
TiersTriedInOrder ==
    IsSelectCall /\ FullCatalog =>
        /\ AgreedToOffer =>
              /\ call.tier = 1
              /\ call.activity.activity_type =
                     FirstEntryOf(OfferedIn(args.context.last_assistant_message))
        /\ ~AgreedToOffer /\ HandledNamedIn(args.user_message) # {} =>
              /\ call.tier = 2
              /\ call.activity.activity_type = FirstEntryOf(HandledNamedIn(args.user_message))
        /\ call.tier = 3 => ~AgreedToOffer /\ HandledNamedIn(args.user_message) = {}

\* "ok" together with an explicit request for breathing, after an offer of
\* music, under needs whose best-scored entry is journaling: the offer wins
AgreedOfferBeatsNamedDomain ==
    /\ IsSelectCall
    /\ FullCatalog
    /\ args.user_message = {"ok", "breathing"}
    /\ args.context.last_assistant_message = {"would you like", "music"}
    /\ args.context.suggested_activities = <<>>
    /\ Priority2(catalog, args.user_needs, args.context) = "journaling"
    /\ call.activity.activity_type = "healing_studio"
    /\ call.tier = 1

(***************************************************************************)
(* The gate against the explicit-intent patterns of the selector (SpecGate)*)
(***************************************************************************)
\* the message matches a pattern of one of the explicit-intent blocks of
\* select_best_activity
SelectorExplicit(msg) == \E k \in DOMAIN ExplicitDomains : Search(ExplicitDomains[k].keywords, msg)

\* C23: past turn 1, every message that the explicit-intent branch of
\* select_best_activity takes as a request makes shouldSuggestActivity return
\* true, whatever the context and the last assistant message
GateAcceptsSelectorExplicit ==
    IsGateCall /\ call.conversationTurnCount > 1
               /\ SelectorExplicit(call.messageContent)
        => call.result = TRUE

(***************************************************************************)
(* SpecChat: the non-streaming path ConversationService.chat and the       *)
(* proactive greeting on one conversation; `args` holds the chat requests  *)
(* that have built their two messages and not yet committed them           *)
(***************************************************************************)
ChatMessages == {{"ok"}, {"music"}, {"music", "anxious"}}

ChatReplies == {{}, {"would you like", "music"}}

MaxSeq(rows) ==
    CHOOSE m \in {rows[i].sequence_number : i \in DOMAIN rows} :
        \A i \in DOMAIN rows : rows[i].sequence_number <= m

\* max(sequence_number) + 1, or 1 when the conversation holds no message
getNextSequenceNumber(rows) == IF rows = <<>> THEN 1 ELSE MaxSeq(rows) + 1

\* shouldSuggestActivity(emotionData, request.message), called with a late turn count
ChatGate_Late(emotionData, message) == shouldSuggestActivity(emotionData, message, 2, {}, NoContext)

\* shouldSuggestActivity(emotionData, request.message): the turn count, the
\* last assistant message and the context take their defaults
ChatGate(emotionData, message) == shouldSuggestActivity(emotionData, message, 0, {}, NoContext)

InitChat ==
    /\ catalog = ACTIVITIES
    /\ context = NoContext
    /\ args = <<>>
    /\ call = Idle
    /\ messages = <<>>
    /\ pending = {}
    /\ turns = <<>>
    /\ offered = <<>>
    /\ conversations = NoConversations
    /\ cache = NoConversations

\* sendProactiveGreeting on a conversation that shouldSendProactiveGreeting
\* finds empty
SendProactiveGreeting ==
    /\ messages = <<>>
    /\ messages' = << [role |-> "assistant", content |-> {"would you like"},
                       sequence_number |-> 1] >>
    /\ call' = [op |-> "sendProactiveGreeting"]
    /\ UNCHANGED <<catalog, conversations, cache, context, args, pending, turns, offered>>

\* chat up to the point where both messages are built: phases 1 and 2, the
\* sequence number, the suggestion check
ChatPrepare ==
    /\ Len(args) < MaxInFlight
    /\ Len(turns) + Len(args) < MaxStreamTurns
    /\ \E message \in ChatMessages, reply \in ChatReplies :
          LET emotionData == analyzeEmotionSimple(message)
              seqNum == getNextSequenceNumber(messages)
              Built(activity) ==
                  args' = Append(args,
                      [message |-> message, reply |-> reply, seqNum |-> seqNum,
                       suggestion |-> activity,
                       content |-> IF activity = NoActivity THEN reply
                                   ELSE reply \cup generateSuggestionMessage(activity)])
          IN  /\ ~isSimplePattern(message)
              /\ IF ChatGate(emotionData, message)
                 THEN \E r \in getSuggestedActivity(catalog, emotionData, {}, "vi", NoContext) :
                          Built(r.activity)
                 ELSE Built(NoActivity)
    /\ call' = [op |-> "chat", step |-> "prepared"]
    /\ UNCHANGED <<catalog, conversations, cache, context, messages, pending, turns, offered>>

\* db.add_all, the commit and the ChatResponse of one prepared request
ChatCommit ==
    /\ \E k \in DOMAIN args :
          /\ messages' = messages \o
                 << [role |-> "user", content |-> args[k].message,
                     sequence_number |-> args[k].seqNum],
                    [role |-> "assistant", content |-> args[k].content,
                     sequence_number |-> args[k].seqNum + 1] >>
          /\ turns' = Append(turns, args[k])
          /\ call' = [op |-> "chat", step |-> "returned", suggestion |-> args[k].suggestion]
          /\ args' = SubSeq(args, 1, k - 1) \o SubSeq(args, k + 1, Len(args))
    /\ UNCHANGED <<catalog, conversations, cache, context, pending, offered>>

NextChat == SendProactiveGreeting \/ ChatPrepare \/ ChatCommit

SpecChat == InitChat /\ [][NextChat]_vars

OpenGateYieldsSuggestion ==
    \A k \in DOMAIN turns : turns[k].gate => turns[k].suggestion # None

(***************************************************************************)
(* Ties of the scored branch (SpecSelect)                                  *)
(***************************************************************************)
\* the entries that share the maximum score of the call, when it is above 0
TopScored ==
    {i \in DOMAIN catalog :
        /\ ScoreBefore(i) > 0
        /\ \A j \in DOMAIN catalog : ScoreBefore(j) <= ScoreBefore(i)}

\* C26: when the scored branch returns an entry, it is the first in catalog
\* order of those that share the maximum score
TieGoesToFirstInCatalog ==
    IsSelectCall /\ call.tier = 3 /\ call.activity # NoActivity
        => \E i \in TopScored :
              /\ catalog[i].id = call.activity.activity_type
              /\ \A j \in TopScored : i <= j

\* on the catalog of the source, two entries shared the maximum score and the
\* earlier one was returned
TieOnSourceCatalogResolved ==
    /\ IsSelectCall
    /\ call.tier = 3
    /\ catalog = ACTIVITIES
    /\ \E i, j \in TopScored :
          /\ i < j
          /\ catalog[i].id = call.activity.activity_type

(***************************************************************************)
(* Sequence numbers of the stored messages (SpecChat)                      *)
(***************************************************************************)
\* C27: the stored messages of the conversation carry the sequence numbers
\* 1, 2, 3, ... in arrival order, no two of them the same
SequenceNumbersRunInOrder ==
    \A i \in DOMAIN messages : messages[i].sequence_number = i

(***************************************************************************)
(* SpecConv: getOrCreateConversation and deleteConversation on the         *)
(* conversations table and the process-wide conversation cache             *)
(***************************************************************************)
InitConv ==
    /\ catalog = ACTIVITIES
    /\ context = NoContext
    /\ args = <<>>
    /\ call = Idle
    /\ messages = <<>>
    /\ pending = {}
    /\ turns = <<>>
    /\ offered = <<>>
    /\ conversations = NoConversations
    /\ cache = NoConversations

\* the ids under which the table holds no row
UnusedIds == {c \in ConversationIds : conversations[c] = NoConversation}

\* one call of getOrCreateConversation; `fresh` tells whether a cached entry
\* is younger than _CACHE_TTL
GetOrCreateConversation ==
    \E userId \in Users, conversationId \in ConversationIds \cup {None}, fresh \in BOOLEAN :
        LET Return(conversation) ==
                call' = [op |-> "getOrCreateConversation", userId |-> userId,
                         conversationId |-> conversationId, result |-> conversation]
        IN  /\ IF conversationId # None /\ cache[conversationId] # NoConversation /\ fresh
               THEN \* cache hit
                    /\ Return(cache[conversationId])
                    /\ UNCHANGED <<conversations, cache>>
               ELSE IF conversationId # None /\ conversations[conversationId] # NoConversation
               THEN \* cache miss: select(Conversation).where(Conversation.id == conversationId)
                    /\ Return(conversations[conversationId])
                    /\ cache' = [cache EXCEPT ![conversationId] = conversations[conversationId]]
                    /\ UNCHANGED conversations
               ELSE \* a new conversation under a new id
                    \E new \in UnusedIds \ {conversationId} :
                        LET conversation == [id |-> new, user_id |-> userId, deleted_at |-> FALSE]
                        IN  /\ Return(conversation)
                            /\ conversations' = [conversations EXCEPT ![new] = conversation]
                            /\ cache' = [cache EXCEPT ![new] = conversation]
            /\ UNCHANGED <<catalog, context, args, messages, pending, turns, offered>>

\* one call of deleteConversation: a soft delete of a live conversation of the
\* user and the removal of its cache entry, NotFoundException otherwise
DeleteConversation ==
    \E conversationId \in ConversationIds, userId \in Users :
        LET found == /\ conversations[conversationId] # NoConversation
                     /\ conversations[conversationId].user_id = userId
                     /\ ~conversations[conversationId].deleted_at
        IN  /\ IF found
               THEN /\ conversations' = [conversations EXCEPT ![conversationId].deleted_at = TRUE]
                    /\ cache' = [cache EXCEPT ![conversationId] = NoConversation]
               ELSE UNCHANGED <<conversations, cache>>
            /\ call' = [op |-> "deleteConversation", userId |-> userId,
                        conversationId |-> conversationId, deleted |-> found]
            /\ UNCHANGED <<catalog, context, args, messages, pending, turns, offered>>

NextConv == GetOrCreateConversation \/ DeleteConversation

SpecConv == InitConv /\ [][NextConv]_vars

IsGetCall == call.op = "getOrCreateConversation"

\* C28: a call of getOrCreateConversation naming a conversation that has been
\* deleted does not return that conversation
DeletedConversationNotReturned ==
    IsGetCall /\ call.conversationId # None
              /\ conversations[call.conversationId].deleted_at
        => call.result.id # call.conversationId

\* C29: getOrCreateConversation returns a conversation of the calling user
ConversationBelongsToCaller ==
    IsGetCall => call.result.user_id = call.userId

(***************************************************************************)
(* SpecAffect: the affect reading of the streaming pipeline and the needs  *)
(* derived from it                                                         *)
(***************************************************************************)
\* phrases that only the emotion keywords of analyzeEmotionSimple match
AffectWords == {"sad", "happy", "angry", "calm", "confused"}

AffectMessages == BoundedSubsets(SignalWords \cup AffectWords, MaxMsgWords)

InitAffect ==
    /\ catalog = ACTIVITIES
    /\ context = NoContext
    /\ args \in [op : {"analyzeEmotionSimple"}, message : AffectMessages]
    /\ call = Idle
    /\ messages = <<>>
    /\ pending = {}
    /\ turns = <<>>
    /\ offered = <<>>
    /\ conversations = NoConversations
    /\ cache = NoConversations

\* the affect reading of a streaming request and the needs getSuggestedActivity
\* derives from it
AnalyzeStreamedMessage ==
    /\ args.op = "analyzeEmotionSimple"
    /\ call = Idle
    /\ LET emotionData == analyzeEmotionSimple(args.message)
       IN  \E needs \in analyze_user_needs(args.message, emotionData, NoHour) :
               call' = [op |-> "analyzeEmotionSimple", emotionData |-> emotionData,
                        needs |-> needs]
    /\ UNCHANGED <<catalog, conversations, cache, context, args, messages, pending, turns, offered>>

NextAffect == AnalyzeStreamedMessage

SpecAffect == InitAffect /\ [][NextAffect]_vars

IsAffectCall == call.op = "analyzeEmotionSimple"

\* C30: with the affect reading of analyzeEmotionSimple, need_activation never
\* exceeds 0.3, and the activation term of the score is 0 for every entry
ActivationNeverAboveDeadZone ==
    IsAffectCall =>
        /\ call.needs.need_activation <= 30
        /\ \A i \in DOMAIN catalog :
               Term(call.needs.need_activation, catalog[i].provides_activation, 70) = 0

\* an angry message about an argument: need_activation is raised to 0.3 and
\* stays inside the dead zone
AngryArgumentActivation ==
    /\ IsAffectCall
    /\ args.message = {"angry", "argue"}
    /\ call.emotionData.emotion_state = "angry"
    /\ call.needs.need_activation = 30

====
